---- MODULE Spec2Model ----
(***************************************************************************)
(* A model of cobra/mit/session.py: the password login session             *)
(* (LoginSession) and the certificate request signer (CertSession).        *)
(*                                                                         *)
(* Python values are modelled as follows.  A str is a sequence of          *)
(* one-character strings.  An attribute that may hold None is an option:   *)
(* None is the empty sequence and Some(v) the one-element sequence <<v>>.  *)
(***************************************************************************)
EXTENDS Integers, Sequences, FiniteSets, TLC

VARIABLES
    \* ---- LoginSession fields (session.py 203-207)
    cookie,                 \* self._cookie
    challenge,              \* self._challenge
    version,                \* self._version
    refreshTime,            \* self._refreshTime
    refreshTimeoutSeconds,  \* self._refreshTimeoutSeconds
    \* ---- the thread that calls _parseResponse and the setters
    pc,                     \* position inside _parseResponse, "idle" outside
    loc,                    \* its locals: cookie, refreshTimeoutSeconds, version
    outcome,                \* how _parseResponse ended, if it was the last call
    pre,                    \* the fields as they were when that call began
    lastOk,                 \* the last parse that returned normally
    \* ---- other threads read the session at any of these points
    headers,                \* the last mapping getHeaders returned
    clock,                  \* time.time(), in half seconds
    \* ---- the module global and the CertSession signing calls
    inlineSignature,        \* session.py 18-22
    sp,                     \* per caller: position inside _generateSignature
    sl,                     \* per caller: its arguments and locals
    sret,                   \* per caller: how its last call ended
    dirs,                   \* the temp directories that exist
    fs,                     \* the files that exist: <<dir, name>> -> content
    ncalls,                 \* signing calls started so far
    \* ---- payload canonicalisation of one request
    cUri, cData, cNorm, cNorm2, cInline, cManual

loginVars == <<cookie, challenge, version, refreshTime, refreshTimeoutSeconds,
               pc, loc, outcome, pre, lastOk, headers, clock>>
signVars  == <<inlineSignature, sp, sl, sret, dirs, fs, ncalls>>
canonVars == <<cUri, cData, cNorm, cNorm2, cInline, cManual>>
vars      == <<loginVars, signVars, canonVars>>

None    == <<>>
Some(v) == <<v>>

\* ------------------------------------------------------------------ bounds
MaxClock  == 2      \* the clock runs from 0 to MaxClock half seconds
MaxUriLen == 3      \* URIs of up to MaxUriLen characters
MaxCalls  == 2      \* signing calls started in one behaviour

\* ------------------------------------------------------------- LoginSession

\* The state of a freshly constructed LoginSession.
LoginSessionInit ==
    /\ cookie = None
    /\ challenge = None
    /\ version = None
    /\ refreshTime = None
    /\ refreshTimeoutSeconds = None

Fields ==
    [cookie |-> cookie, version |-> version, refreshTime |-> refreshTime,
     refreshTimeoutSeconds |-> refreshTimeoutSeconds]

\* str(x) as the %s conversion renders it: None prints as the text None.
PyStr(opt) == IF opt = None THEN <<"N", "o", "n", "e">> ELSE opt[1]

\* Python truthiness of an attribute holding None or a str.
Truthy(opt) == opt # None /\ opt[1] # <<>>

DigitVal(c) ==
    CASE c = "0" -> 0 [] c = "1" -> 1 [] c = "2" -> 2 [] c = "3" -> 3
      [] c = "4" -> 4 [] c = "5" -> 5 [] c = "6" -> 6 [] c = "7" -> 7
      [] c = "8" -> 8 [] c = "9" -> 9

IsDigit(c) == c \in {"0", "1", "2", "3", "4", "5", "6", "7", "8", "9"}

\* int(s) accepts a non-empty run of decimal digits; anything else over the
\* alphabet used here is a ValueError.
IntOk(s) == Len(s) > 0 /\ \A i \in 1..Len(s) : IsDigit(s[i])

RECURSIVE PyInt(_)
PyInt(s) == IF s = <<>> THEN 0
            ELSE 10 * PyInt(SubSeq(s, 1, Len(s) - 1)) + DigitVal(s[Len(s)])

\* math.trunc(time.time()), the clock counting half seconds.
Trunc(t) == t \div 2

CookiePrefix == <<"A", "P", "I", "C", "-", "c", "o", "o", "k", "i", "e", "=">>

\* getHeaders testing "is not None" where the code tests truthiness.
LoginHeadersNotNone(ck, ch) ==
    IF ch # None
    THEN ("Cookie" :> (CookiePrefix \o PyStr(ck))) @@ ("APIC-challenge" :> ch[1])
    ELSE ("Cookie" :> (CookiePrefix \o PyStr(ck)))

\* The mapping LoginSession.getHeaders builds.
LoginHeaders(ck, ch) ==
    IF Truthy(ch)
    THEN ("Cookie" :> (CookiePrefix \o PyStr(ck))) @@ ("APIC-challenge" :> ch[1])
    ELSE ("Cookie" :> (CookiePrefix \o PyStr(ck)))

\* ---- the inputs
Tokens   == {<<"a">>, <<"b">>}
Versions == {<<"5">>}
Lifetimes == {<<"2">>, <<"1", "0">>, <<"x">>}
Challenges == {<<>>, <<"c">>}

\* A login response.  kind says what rsp.json() gives: "nojson" (the body
\* does not decode), "noimdata" (imdata absent or empty), "error" and
\* "aaaLogin" (the first record holds that key), "other" (it holds neither).
\* An attribute that is absent from the aaaLogin record is None.
Responses ==
    [kind : {"nojson", "noimdata", "error", "other"},
     token : {None}, rts : {None}, version : {None}]
    \cup
    [kind : {"aaaLogin"},
     token : {None} \cup {Some(t) : t \in Tokens},
     rts : {None} \cup {Some(r) : r \in Lifetimes},
     version : {None} \cup {Some(v) : v \in Versions}]

NoLoc == [cookie |-> None, refreshTimeoutSeconds |-> None, version |-> None,
          at |-> 0]

\* Lines 262-276: decode, pick the first record, read the three attributes.
\* Only locals are written; an exception ends the call here.
ParseOutcome(rsp) ==
    CASE rsp.kind = "nojson"   -> "ValueError"
      [] rsp.kind = "noimdata" -> "LoginError"
      [] rsp.kind = "error"    -> "LoginError"
      [] rsp.kind = "other"    -> "LoginError"
      [] rsp.kind = "aaaLogin" ->
            IF rsp.token = None \/ rsp.rts = None \/ rsp.version = None
            THEN "KeyError" ELSE "running"

ParseBegin(rsp) ==
    /\ pc = "idle"
    /\ pre' = Fields
    /\ IF ParseOutcome(rsp) = "running"
       THEN /\ pc' = "l277"
            /\ loc' = [cookie |-> rsp.token, refreshTimeoutSeconds |-> rsp.rts,
                       version |-> rsp.version, at |-> 0]
            /\ outcome' = "running"
       ELSE /\ pc' = "idle"
            /\ loc' = NoLoc
            /\ outcome' = ParseOutcome(rsp)
    /\ UNCHANGED <<cookie, challenge, version, refreshTime,
                   refreshTimeoutSeconds, lastOk, headers, clock>>
    /\ UNCHANGED <<signVars, canonVars>>

\* Line 277: self._cookie = cookie
ParseL277 ==
    /\ pc = "l277"
    /\ cookie' = loc.cookie
    /\ pc' = "l278"
    /\ UNCHANGED <<challenge, version, refreshTime, refreshTimeoutSeconds,
                   loc, outcome, pre, lastOk, headers, clock>>
    /\ UNCHANGED <<signVars, canonVars>>

\* Line 278: self._version = version
ParseL278 ==
    /\ pc = "l278"
    /\ version' = loc.version
    /\ pc' = "l279"
    /\ UNCHANGED <<cookie, challenge, refreshTime, refreshTimeoutSeconds,
                   loc, outcome, pre, lastOk, headers, clock>>
    /\ UNCHANGED <<signVars, canonVars>>

\* Line 279: self._refreshTime = int(refreshTimeoutSeconds) + trunc(time())
ParseL279 ==
    /\ pc = "l279"
    /\ IF IntOk(loc.refreshTimeoutSeconds[1])
       THEN /\ refreshTime' =
                  Some(PyInt(loc.refreshTimeoutSeconds[1]) + Trunc(clock))
            /\ loc' = [loc EXCEPT !.at = clock]
            /\ pc' = "l280"
            /\ UNCHANGED outcome
       ELSE /\ pc' = "idle"
            /\ outcome' = "ValueError"
            /\ loc' = NoLoc
            /\ UNCHANGED refreshTime
    /\ UNCHANGED <<cookie, challenge, version, refreshTimeoutSeconds,
                   pre, lastOk, headers, clock>>
    /\ UNCHANGED <<signVars, canonVars>>

\* Line 280: self._refreshTimeoutSeconds = int(refreshTimeoutSeconds)
ParseL280 ==
    /\ pc = "l280"
    /\ refreshTimeoutSeconds' = Some(PyInt(loc.refreshTimeoutSeconds[1]))
    /\ pc' = "idle"
    /\ outcome' = "ok"
    /\ lastOk' = Some([token |-> loc.cookie[1], version |-> loc.version[1],
                       lifetime |-> PyInt(loc.refreshTimeoutSeconds[1]),
                       at |-> loc.at])
    /\ loc' = NoLoc
    /\ UNCHANGED <<cookie, challenge, version, refreshTime,
                   pre, headers, clock>>
    /\ UNCHANGED <<signVars, canonVars>>

\* The cookie setter (lines 221-223), called between parses.
SetCookie(v) ==
    /\ pc = "idle"
    /\ cookie' = v
    /\ outcome' = "none"
    /\ UNCHANGED <<challenge, version, refreshTime, refreshTimeoutSeconds,
                   pc, loc, pre, lastOk, headers, clock>>
    /\ UNCHANGED <<signVars, canonVars>>

\* The challenge setter (lines 229-231).
SetChallenge(v) ==
    /\ pc = "idle"
    /\ challenge' = v
    /\ outcome' = "none"
    /\ UNCHANGED <<cookie, version, refreshTime, refreshTimeoutSeconds,
                   pc, loc, pre, lastOk, headers, clock>>
    /\ UNCHANGED <<signVars, canonVars>>

\* LoginSession.getHeaders (lines 245-259); its two arguments are not read.
GetHeaders ==
    /\ headers' = Some(LoginHeaders(cookie, challenge))
    /\ UNCHANGED <<cookie, challenge, version, refreshTime,
                   refreshTimeoutSeconds, pc, loc, outcome, pre, lastOk,
                   clock>>
    /\ UNCHANGED <<signVars, canonVars>>

Tick ==
    /\ clock < MaxClock
    /\ clock' = clock + 1
    /\ UNCHANGED <<cookie, challenge, version, refreshTime,
                   refreshTimeoutSeconds, pc, loc, outcome, pre, lastOk,
                   headers>>
    /\ UNCHANGED <<signVars, canonVars>>

LoginInit ==
    /\ LoginSessionInit
    /\ pc = "idle"
    /\ loc = NoLoc
    /\ outcome = "none"
    /\ pre = Fields
    /\ lastOk = None
    /\ headers = None
    /\ clock = 0

LoginNext ==
    \/ \E rsp \in Responses : ParseBegin(rsp)
    \/ ParseL277
    \/ ParseL278
    \/ ParseL279
    \/ ParseL280
    \/ \E v \in {None} \cup {Some(t) : t \in Tokens} : SetCookie(v)
    \/ \E v \in {None} \cup {Some(c) : c \in Challenges} : SetChallenge(v)
    \/ GetHeaders
    \/ Tick

\* ------------------------------------------- CertSession: canonicalisation

\* uri.replace('//', '/'): one scan from the left, each match replaced and
\* the scan resumed after it, so the matches do not overlap.
RECURSIVE PyReplace(_)
PyReplace(s) ==
    IF Len(s) < 2 THEN s
    ELSE IF s[1] = "/" /\ s[2] = "/"
         THEN <<"/">> \o PyReplace(SubSeq(s, 3, Len(s)))
         ELSE <<s[1]>> \o PyReplace(Tail(s))

\* The normalisation without its first step: the trailing "?" stays.
NormalizeUriKeepQ(uri) == PyReplace(uri)

\* Lines 434-436: drop one trailing "?", then replace "//" by "/".
NormalizeUri(uri) ==
    PyReplace(IF Len(uri) > 0 /\ uri[Len(uri)] = "?"
              THEN SubSeq(uri, 1, Len(uri) - 1)
              ELSE uri)

GET  == <<"G", "E", "T">>
POST == <<"P", "O", "S", "T">>

\* Lines 439-442: the text the in-process backend signs.
InlinePayload(uri, data) ==
    IF data = None THEN GET \o uri ELSE POST \o uri \o data[1]

\* os.linesep where the module runs: a text-mode file ("wt") stores each
\* "\n" as this.  The POSIX value.
LineSep == <<"\n">>

RECURSIVE WriteText(_)
WriteText(s) ==
    IF s = <<>> THEN <<>>
    ELSE (IF s[1] = "\n" THEN LineSep ELSE <<s[1]>>) \o WriteText(Tail(s))

\* The payload file written with "if not data" where the code has
\* "if data is None": an empty body is taken for no body.
ManualPayloadTruthy(uri, data) ==
    IF ~Truthy(data) THEN WriteText(GET \o uri)
    ELSE WriteText(POST \o uri \o data[1])

\* Lines 456-460: what the external-tool backend stores in the payload file.
ManualPayload(uri, data) ==
    IF data = None THEN WriteText(GET \o uri)
    ELSE WriteText(POST \o uri \o data[1])

UriChars == {"/", "?", "a"}
Uris == UNION {[1..n -> UriChars] : n \in 0..MaxUriLen}
Bodies == {None, Some(<<>>), Some(<<"b">>), Some(<<"\n">>), Some(<<"?">>)}

CanonInit ==
    /\ cUri \in Uris
    /\ cData \in Bodies
    /\ cNorm = None
    /\ cNorm2 = None
    /\ cInline = None
    /\ cManual = None

\* Lines 434-436 applied to the request's URI.
Canonicalize ==
    /\ cNorm = None
    /\ cNorm' = Some(NormalizeUri(cUri))
    /\ UNCHANGED <<cUri, cData, cNorm2, cInline, cManual>>
    /\ UNCHANGED <<loginVars, signVars>>

\* The same lines applied to a URI that is already canonical.
CanonicalizeAgain ==
    /\ cNorm # None
    /\ cNorm2 = None
    /\ cNorm2' = Some(NormalizeUri(cNorm[1]))
    /\ UNCHANGED <<cUri, cData, cNorm, cInline, cManual>>
    /\ UNCHANGED <<loginVars, signVars>>

\* The in-process branch builds its payload.
BuildInline ==
    /\ cNorm # None
    /\ cInline = None
    /\ cInline' = Some(InlinePayload(cNorm[1], cData))
    /\ UNCHANGED <<cUri, cData, cNorm, cNorm2, cManual>>
    /\ UNCHANGED <<loginVars, signVars>>

\* The external-tool branch writes its payload file.
BuildManual ==
    /\ cNorm # None
    /\ cManual = None
    /\ cManual' = Some(ManualPayload(cNorm[1], cData))
    /\ UNCHANGED <<cUri, cData, cNorm, cNorm2, cInline>>
    /\ UNCHANGED <<loginVars, signVars>>

CanonNext ==
    \/ Canonicalize
    \/ CanonicalizeAgain
    \/ BuildInline
    \/ BuildManual

\* ------------------------------------------------- CertSession: signing

Callers == {"c1", "c2"}
DirNames == 1..MaxCalls
NoDir == 0

PrivateKey == <<"k">>
CertDn == <<"d">>

\* The RSA-SHA256 signature of msg under key, as an abstract value.
Sign(key, msg) == [key |-> key, msg |-> msg]
NoSig == [key |-> <<>>, msg |-> <<>>]

\* Base64 text is a sequence of chunks; NL is a line break among them.
Chunk(sig, i) == [of |-> sig, part |-> i]
NL == [of |-> NoSig, part |-> 0]

\* base64.b64encode(signedDigest).decode(): no line breaks.
B64Encode(sig) == <<Chunk(sig, 1), Chunk(sig, 2)>>

\* openssl base64 -e: lines of 64 characters, each ended by a line break.
OpensslBase64(sig) == <<Chunk(sig, 1), NL, Chunk(sig, 2), NL>>

\* "".join(sigBase64.splitlines())
JoinLines(text) == SelectSeq(text, LAMBDA c : c # NL)

PayloadFile(d) == <<d, "payload">>
KeyFile(d)     == <<d, "pkey">>
SigBinFile(d)  == <<d, "pkey_sig.bin">>
SigBaseFile(d) == <<d, "pkey_sig.base64">>

WriteFile(files, path, content) ==
    [q \in DOMAIN files \cup {path} |-> IF q = path THEN content ELSE files[q]]

\* os.remove: the file is gone afterwards; removing a missing file raises,
\* and line 482 swallows it.
RemoveFile(files, path) == [q \in DOMAIN files \ {path} |-> files[q]]

\* os.rmdir succeeds only on an empty directory; line 486 swallows a failure.
Rmdir(ds, files, d) ==
    IF \E q \in DOMAIN files : q[1] = d THEN ds ELSE ds \ {d}

\* A directory name taken without looking at what exists.
AnyDir(ds) == DirNames

\* tempfile.mkdtemp(): a directory that did not exist.
FreshDirs(ds) == DirNames \ ds

SignInputs ==
    {[uri |-> <<"/", "a">>, data |-> None],
     [uri |-> <<"/", "/", "a", "?">>, data |-> Some(<<>>)]}

NoLocals == [uri |-> <<>>, data |-> None, tempDir |-> NoDir,
             tmpFiles |-> <<>>, cmd_out |-> NoSig, signature |-> <<>>,
             i |-> 0]
NoReturn == [kind |-> "none", backend |-> "none", uri |-> <<>>,
             data |-> None, signature |-> <<>>, certDn |-> <<>>]

\* An exception leaves _generateSignature: nothing after the raising line runs.
Raise(t, err, backend) ==
    /\ sp' = [sp EXCEPT ![t] = "idle"]
    /\ sret' = [sret EXCEPT ![t] =
                   [kind |-> err, backend |-> backend, uri |-> sl[t].uri,
                    data |-> sl[t].data, signature |-> <<>>,
                    certDn |-> <<>>]]
    /\ sl' = [sl EXCEPT ![t] = NoLocals]

\* Lines 424-436: the override writes the module global; then the URI is
\* normalised.
SigBegin(t, in, forceManual) ==
    /\ sp[t] = "idle"
    /\ ncalls < MaxCalls
    /\ ncalls' = ncalls + 1
    /\ inlineSignature' = IF forceManual THEN FALSE ELSE inlineSignature
    /\ sl' = [sl EXCEPT ![t] = [NoLocals EXCEPT !.uri = NormalizeUri(in.uri),
                                                !.data = in.data]]
    /\ sp' = [sp EXCEPT ![t] = "l438"]
    /\ sret' = [sret EXCEPT ![t] = NoReturn]
    /\ UNCHANGED <<dirs, fs>>
    /\ UNCHANGED <<loginVars, canonVars>>

\* Line 438: the branch reads the module global.
SigBranch(t) ==
    /\ sp[t] = "l438"
    /\ sp' = [sp EXCEPT ![t] = IF inlineSignature THEN "l439" ELSE "l449"]
    /\ UNCHANGED <<inlineSignature, sl, sret, dirs, fs, ncalls>>
    /\ UNCHANGED <<loginVars, canonVars>>

\* Lines 439-447: build the payload, load the key, sign, base64.
SigInline(t) ==
    /\ sp[t] = "l439"
    /\ \/ Raise(t, "crypto.Error", "inline")
       \/ /\ sl' = [sl EXCEPT ![t].signature =
                      B64Encode(Sign(PrivateKey,
                                     InlinePayload(sl[t].uri, sl[t].data)))]
          /\ sp' = [sp EXCEPT ![t] = "l489"]
          /\ sret' = [sret EXCEPT ![t].backend = "inline"]
    /\ UNCHANGED <<inlineSignature, dirs, fs, ncalls>>
    /\ UNCHANGED <<loginVars, canonVars>>

\* Lines 449-454: a fresh temp directory and the four file names in it.
Mkdtemp(t) ==
    /\ sp[t] = "l449"
    /\ \E d \in FreshDirs(dirs) :
          /\ dirs' = dirs \cup {d}
          /\ sl' = [sl EXCEPT ![t].tempDir = d]
    /\ sp' = [sp EXCEPT ![t] = "l456"]
    /\ sret' = [sret EXCEPT ![t].backend = "manual"]
    /\ UNCHANGED <<inlineSignature, fs, ncalls>>
    /\ UNCHANGED <<loginVars, canonVars>>

\* Lines 456-461: write the payload file.
WritePayload(t) ==
    /\ sp[t] = "l456"
    /\ \/ /\ Raise(t, "IOError", "manual")
          /\ UNCHANGED fs
       \/ /\ fs' = WriteFile(fs, PayloadFile(sl[t].tempDir),
                             ManualPayload(sl[t].uri, sl[t].data))
          /\ sl' = [sl EXCEPT ![t].tmpFiles =
                      Append(@, PayloadFile(sl[t].tempDir))]
          /\ sp' = [sp EXCEPT ![t] = "l463"]
          /\ UNCHANGED sret
    /\ UNCHANGED <<inlineSignature, dirs, ncalls>>
    /\ UNCHANGED <<loginVars, canonVars>>

\* Lines 463-464: write the private key file.
WriteKey(t) ==
    /\ sp[t] = "l463"
    /\ \/ /\ Raise(t, "IOError", "manual")
          /\ UNCHANGED fs
       \/ /\ fs' = WriteFile(fs, KeyFile(sl[t].tempDir), PrivateKey)
          /\ sl' = [sl EXCEPT ![t].tmpFiles =
                      Append(@, KeyFile(sl[t].tempDir))]
          /\ sp' = [sp EXCEPT ![t] = "l466"]
          /\ UNCHANGED sret
    /\ UNCHANGED <<inlineSignature, dirs, ncalls>>
    /\ UNCHANGED <<loginVars, canonVars>>

\* Lines 466-467 with runCmd (381-389): openssl dgst -sha256 -sign reads the
\* two files; a non-zero exit raises CalledProcessError.
RunDgst(t) ==
    /\ sp[t] = "l466"
    /\ \/ Raise(t, "CalledProcessError", "manual")
       \/ /\ KeyFile(sl[t].tempDir) \in DOMAIN fs
          /\ PayloadFile(sl[t].tempDir) \in DOMAIN fs
          /\ sl' = [sl EXCEPT ![t].cmd_out =
                      Sign(fs[KeyFile(sl[t].tempDir)],
                           fs[PayloadFile(sl[t].tempDir)])]
          /\ sp' = [sp EXCEPT ![t] = "l468"]
          /\ UNCHANGED sret
    /\ UNCHANGED <<inlineSignature, dirs, fs, ncalls>>
    /\ UNCHANGED <<loginVars, canonVars>>

\* Lines 468-469: write the binary signature file.
WriteSigBin(t) ==
    /\ sp[t] = "l468"
    /\ \/ /\ Raise(t, "IOError", "manual")
          /\ UNCHANGED fs
       \/ /\ fs' = WriteFile(fs, SigBinFile(sl[t].tempDir), sl[t].cmd_out)
          /\ sl' = [sl EXCEPT ![t].tmpFiles =
                      Append(@, SigBinFile(sl[t].tempDir))]
          /\ sp' = [sp EXCEPT ![t] = "l471"]
          /\ UNCHANGED sret
    /\ UNCHANGED <<inlineSignature, dirs, ncalls>>
    /\ UNCHANGED <<loginVars, canonVars>>

\* Lines 471-474 with runCmd: openssl base64 -in ... -e -out ...
RunBase64(t) ==
    /\ sp[t] = "l471"
    /\ \/ /\ Raise(t, "CalledProcessError", "manual")
          /\ UNCHANGED fs
       \/ /\ SigBinFile(sl[t].tempDir) \in DOMAIN fs
          /\ fs' = WriteFile(fs, SigBaseFile(sl[t].tempDir),
                             OpensslBase64(fs[SigBinFile(sl[t].tempDir)]))
          /\ sl' = [sl EXCEPT ![t].tmpFiles =
                      Append(@, SigBaseFile(sl[t].tempDir))]
          /\ sp' = [sp EXCEPT ![t] = "l476"]
          /\ UNCHANGED sret
    /\ UNCHANGED <<inlineSignature, dirs, ncalls>>
    /\ UNCHANGED <<loginVars, canonVars>>

\* Lines 476-477: read the base64 file and join its lines.
ReadSignature(t) ==
    /\ sp[t] = "l476"
    /\ \/ Raise(t, "IOError", "manual")
       \/ /\ SigBaseFile(sl[t].tempDir) \in DOMAIN fs
          /\ sl' = [sl EXCEPT ![t].signature =
                      JoinLines(fs[SigBaseFile(sl[t].tempDir)]),
                              ![t].i = 1]
          /\ sp' = [sp EXCEPT ![t] = "l479"]
          /\ UNCHANGED sret
    /\ UNCHANGED <<inlineSignature, dirs, fs, ncalls>>
    /\ UNCHANGED <<loginVars, canonVars>>

\* Lines 479-487: one turn of the loop removes one file and tries the rmdir.
Cleanup(t) ==
    /\ sp[t] = "l479"
    /\ IF sl[t].i <= Len(sl[t].tmpFiles)
       THEN /\ fs' = RemoveFile(fs, sl[t].tmpFiles[sl[t].i])
            /\ dirs' = Rmdir(dirs, fs', sl[t].tempDir)
            /\ sl' = [sl EXCEPT ![t].i = @ + 1]
            /\ UNCHANGED sp
       ELSE /\ sp' = [sp EXCEPT ![t] = "l489"]
            /\ UNCHANGED <<fs, dirs, sl>>
    /\ UNCHANGED <<inlineSignature, sret, ncalls>>
    /\ UNCHANGED <<loginVars, canonVars>>

\* Lines 489-493: the cookie text, with the signature and the DN put in.
SigReturn(t) ==
    /\ sp[t] = "l489"
    /\ sret' = [sret EXCEPT ![t] =
                   [kind |-> "returned", backend |-> sret[t].backend,
                    uri |-> sl[t].uri, data |-> sl[t].data,
                    signature |-> sl[t].signature, certDn |-> CertDn]]
    /\ sl' = [sl EXCEPT ![t] = NoLocals]
    /\ sp' = [sp EXCEPT ![t] = "idle"]
    /\ UNCHANGED <<inlineSignature, dirs, fs, ncalls>>
    /\ UNCHANGED <<loginVars, canonVars>>

SignInit ==
    /\ inlineSignature \in BOOLEAN
    /\ sp = [t \in Callers |-> "idle"]
    /\ sl = [t \in Callers |-> NoLocals]
    /\ sret = [t \in Callers |-> NoReturn]
    /\ dirs = {}
    /\ fs = <<>>
    /\ ncalls = 0

SignNext ==
    \E t \in Callers :
        \/ \E in \in SignInputs, fm \in BOOLEAN : SigBegin(t, in, fm)
        \/ SigBranch(t)
        \/ SigInline(t)
        \/ Mkdtemp(t)
        \/ WritePayload(t)
        \/ WriteKey(t)
        \/ RunDgst(t)
        \/ WriteSigBin(t)
        \/ RunBase64(t)
        \/ ReadSignature(t)
        \/ Cleanup(t)
        \/ SigReturn(t)

\* ------------------------------------------------------- specifications

\* The idle state of each part, held while another part runs.
LoginIdle == LoginInit
SignIdle ==
    /\ inlineSignature = TRUE
    /\ sp = [t \in Callers |-> "idle"]
    /\ sl = [t \in Callers |-> NoLocals]
    /\ sret = [t \in Callers |-> NoReturn]
    /\ dirs = {}
    /\ fs = <<>>
    /\ ncalls = 0
CanonIdle ==
    /\ cUri = <<>>
    /\ cData = None
    /\ cNorm = None
    /\ cNorm2 = None
    /\ cInline = None
    /\ cManual = None

\* One LoginSession: the thread that logs in, and getHeaders beside it.
InitLogin == LoginInit /\ SignIdle /\ CanonIdle
SpecLogin == InitLogin /\ [][LoginNext]_vars

\* The canonical payload of one request, built by both backends.
InitCanon == CanonInit /\ LoginIdle /\ SignIdle
SpecCanon == InitCanon /\ [][CanonNext]_vars

\* Concurrent callers of CertSession._generateSignature.
InitSign == SignInit /\ LoginIdle /\ CanonIdle
SpecSign == InitSign /\ [][SignNext]_vars

Init == LoginInit /\ SignInit /\ CanonInit
Next == LoginNext \/ SignNext \/ CanonNext
Spec == Init /\ [][Next]_vars

\* ------------------------------------------------------------- properties

Failures == {"LoginError", "KeyError", "ValueError"}

AllUnset == [cookie |-> None, version |-> None, refreshTime |-> None,
             refreshTimeoutSeconds |-> None]

\* The four fields as one successful parse leaves them.
SetBy(ok) ==
    [cookie |-> Some(ok.token), version |-> Some(ok.version),
     refreshTime |-> Some(Trunc(ok.at) + ok.lifetime),
     refreshTimeoutSeconds |-> Some(ok.lifetime)]

\* C1: when _parseResponse has failed, with whatever error, authToken,
\* serverVersion, tokenLifetimeSeconds and expiryEpochSeconds have the values
\* they had before the call.
C1_FailedParseKeepsFields ==
    (pc = "idle" /\ outcome \in Failures) => Fields = pre

\* C4: while a parse that will succeed is storing its result, a reader that
\* sees the new token never sees the expiry or the lifetime unset, nor the
\* expiry of the previous login.
C4_NoTornUpdate ==
    (pc \in {"l278", "l279", "l280"} /\ IntOk(loc.refreshTimeoutSeconds[1]))
        => /\ refreshTime # None
           /\ refreshTimeoutSeconds # None
           /\ (cookie # pre.cookie => refreshTime # pre.refreshTime)

\* C5: between calls the four token fields are all unset, or all as the same
\* successful parse set them, the expiry being floor(time of that parse) plus
\* the lifetime.
C5_GroupConsistent ==
    pc = "idle" =>
        \/ Fields = AllUnset
        \/ lastOk # None /\ Fields = SetBy(lastOk[1])

HasDoubleSlash(s) == \E i \in 1..(Len(s) - 1) : s[i] = "/" /\ s[i + 1] = "/"
EndsWithQ(s) == Len(s) > 0 /\ s[Len(s)] = "?"

\* C6: canonicalising a canonical URI gives it back, and a canonical URI
\* holds no "//".
C6_CanonIdempotent ==
    cNorm2 # None => (cNorm2 = cNorm /\ ~HasDoubleSlash(cNorm[1]))

\* The URI as it stands in a payload: after the method, before the body.
UriPart(payload, data) ==
    IF data = None THEN SubSeq(payload, Len(GET) + 1, Len(payload))
    ELSE SubSeq(payload, Len(POST) + 1, Len(payload) - Len(data[1]))

PayloadsKeepNoQ ==
    /\ cInline # None => ~EndsWithQ(UriPart(cInline[1], cData))
    /\ cManual # None => ~EndsWithQ(UriPart(cManual[1], cData))

\* C7 as stated: for every URI that ends with "?", the URI in the payload of
\* either backend, GET or POST, does not end with "?".
C7_NoTrailingQ == EndsWithQ(cUri) => PayloadsKeepNoQ

EndsWithOneQ(s) ==
    EndsWithQ(s) /\ ~EndsWithQ(SubSeq(s, 1, Len(s) - 1))

\* C7 as amended: for every URI that ends with exactly one "?" (the
\* character before it, if any, is not "?"), the URI in the payload of either
\* backend, GET or POST, does not end with "?".
C7_NoTrailingQAfterOne == EndsWithOneQ(cUri) => PayloadsKeepNoQ

C7_Witness ==
    /\ EndsWithOneQ(cUri) /\ Len(cUri) > 1
    /\ cData # None
    /\ cInline # None
    /\ cManual # None

\* The canonical payload of section 4.3 of the specification.
CanonicalPayload(uri, data) ==
    IF data = None THEN <<"G", "E", "T">> \o uri
    ELSE <<"P", "O", "S", "T">> \o uri \o data[1]

C8_Headers ==
    [][GetHeaders =>
          /\ headers' # None
          /\ cookie # None =>
                 headers'[1]["Cookie"] = CookiePrefix \o cookie[1]
          /\ ("APIC-challenge" \in DOMAIN headers'[1]) <=> (challenge # None)
          /\ challenge # None =>
                 headers'[1]["APIC-challenge"] = challenge[1]
          /\ UNCHANGED <<cookie, challenge, version, refreshTime,
                         refreshTimeoutSeconds>>]_vars

NoneText == <<"N", "o", "n", "e">>

\* C8 as amended: the Cookie entry is "APIC-cookie=" followed by the current
\* authToken, or by the text None when it is unset; an APIC-challenge entry
\* equal to the challenge token is there exactly when the challenge token is
\* set and not the empty string; there is no other entry, the expiry is not
\* read and no field changes.
C8_HeadersNonEmptyChallenge ==
    [][GetHeaders =>
          /\ headers' # None
          /\ headers'[1]["Cookie"] =
                 CookiePrefix \o (IF cookie = None THEN NoneText ELSE cookie[1])
          /\ ("APIC-challenge" \in DOMAIN headers'[1])
                 <=> (challenge # None /\ challenge # Some(<<>>))
          /\ "APIC-challenge" \in DOMAIN headers'[1] =>
                 headers'[1]["APIC-challenge"] = challenge[1]
          /\ DOMAIN headers'[1] \subseteq {"Cookie", "APIC-challenge"}
          /\ UNCHANGED <<cookie, challenge, version, refreshTime,
                         refreshTimeoutSeconds>>]_vars

C8_Witness ==
    /\ headers # None
    /\ challenge = Some(<<>>)
    /\ cookie # None
    /\ refreshTime # None
    /\ DOMAIN headers[1] = {"Cookie"}
    /\ headers[1]["Cookie"] = CookiePrefix \o cookie[1]

\* C2: the private-key file of a signing call exists only while that call
\* is running, whether the call returns or fails.
C2_KeyOnlyDuringCall ==
    \A p \in DOMAIN fs :
        p[2] = "pkey" =>
            \E t \in Callers : sp[t] # "idle" /\ sl[t].tempDir = p[1]

\* C3: no step of a signing call, forceManual or not, changes the
\* process-wide backend selection.
C3_BackendUnchanged == [][inlineSignature' = inlineSignature]_vars

\* The call has its temp directory and has not begun to remove it.
Working(t) == sp[t] \in {"l456", "l463", "l466", "l468", "l471", "l476"}

\* The call is removing its files; the rmdir that follows the last of them
\* has not run.
Cleaning(t) == sp[t] = "l479" /\ sl[t].i <= Len(sl[t].tmpFiles)

InTempDir(t) == Working(t) \/ Cleaning(t)

OwnPayload(t) == CanonicalPayload(sl[t].uri, sl[t].data)

\* C10: concurrent external-tool calls work in different temp directories;
\* the files a call has written are there, with what it wrote, until it
\* removes them itself; and a call returns the signature of its own payload.
C10_CallsIsolated ==
    /\ \A t1, t2 \in Callers :
          (t1 # t2 /\ InTempDir(t1) /\ InTempDir(t2))
              => sl[t1].tempDir # sl[t2].tempDir
    /\ \A t \in Callers :
          Working(t) =>
              /\ \A k \in 1..Len(sl[t].tmpFiles) :
                    sl[t].tmpFiles[k] \in DOMAIN fs
              /\ \A p \in DOMAIN fs :
                    p[1] = sl[t].tempDir =>
                        /\ p[2] = "payload" => fs[p] = OwnPayload(t)
                        /\ p[2] = "pkey" => fs[p] = PrivateKey
                        /\ p[2] = "pkey_sig.bin" =>
                               fs[p] = Sign(PrivateKey, OwnPayload(t))
    /\ \A t \in Callers :
          sret[t].kind = "returned" =>
              sret[t].signature =
                  B64Encode(Sign(PrivateKey,
                                 CanonicalPayload(sret[t].uri, sret[t].data)))

C10_Witness ==
    \E t1, t2 \in Callers :
        /\ sp[t1] = "l479" /\ sl[t1].i = 3
        /\ sp[t2] = "l476"
        /\ sl[t1].data # sl[t2].data

====
